---- MODULE Spec2Model ----
(***************************************************************************)
(* The two constraint-satisfaction problems of Chapter 5 (map colouring    *)
(* and course scheduling) and the backtracking search that solves them.    *)
(*                                                                         *)
(* The problem classes and the usage cells are translated from the         *)
(* notebooks.  backtracking_search is imported from the kamgon package,    *)
(* whose code is not part of the sources; it is modelled from section 4.1  *)
(* of the specification as an explicit stack of frames.                    *)
(*                                                                         *)
(* A Python dict (the assignment) is a sequence of <<key, value>> pairs in *)
(* insertion order; a Python list is a sequence; a (time, room) tuple is a *)
(* two-element tuple.                                                      *)
(***************************************************************************)
EXTENDS Integers, Sequences, FiniteSets, TLC

VARIABLES problem, domains, assignment, stack, pc, results, branch

vars == <<problem, domains, assignment, stack, pc, results, branch>>

----------------------------------------------------------------------------
(* Bounds of the enumerated problem instances.                             *)

MaxRegions == 3
MaxEdges == 3
MaxColors == 2
MaxCourses == 3
MaxTimes == 2
MaxRooms == 2
MaxConflicts == 1
MaxCalls == 2

----------------------------------------------------------------------------
(* Sequences and dicts.                                                    *)

Range(s) == {s[i] : i \in 1..Len(s)}

Min(a, b) == IF a < b THEN a ELSE b

FirstN(names, n) == SubSeq(names, 1, Min(n, Len(names)))

\* list[r:] + list[:r]
Rotate(list, r) == [i \in 1..Len(list) |-> list[((i - 1 + r) % Len(list)) + 1]]

\* list[::-1]
Reverse(list) == [i \in 1..Len(list) |-> list[Len(list) + 1 - i]]

\* The elements of S listed in the order of the name pool.
ListOf(S, names) == SelectSeq(names, LAMBDA x : x \in S)

\* key in dict
Has(dict, key) == \E i \in 1..Len(dict) : dict[i][1] = key

\* dict[key]
Lookup(dict, key) == dict[CHOOSE i \in 1..Len(dict) : dict[i][1] = key][2]

\* dict[key] = value for a key that is not yet present (appended last)
Put(dict, key, value) == Append(dict, <<key, value>>)

\* del dict[key]
Del(dict, key) == SelectSeq(dict, LAMBDA e : e[1] # key)

\* The position of a value in a list (its first occurrence).
IndexOf(list, value) == CHOOSE i \in 1..Len(list) : list[i] = value /\ \A j \in 1..(i - 1) : list[j] # value

----------------------------------------------------------------------------
(* MapColoringProblem.                                                     *)

\* self.neighbors.get(variable, [])
NeighborsGet(neighbors, variable) ==
  IF variable \in DOMAIN neighbors THEN neighbors[variable] ELSE <<>>

\* MapColoringProblem.is_consistent
MapIsConsistent(p, variable, value, asg) ==
  LET nbrs == NeighborsGet(p.neighbors, variable)
  IN  ~ \E i \in 1..Len(nbrs) : Has(asg, nbrs[i]) /\ Lookup(asg, nbrs[i]) = value

\* MapColoringProblem.__init__: the problem object built from the arguments.
MapColoringProblem(regions, neighbors, colors) ==
  [kind |-> "map", variables |-> regions, neighbors |-> neighbors, colors |-> colors,
   time_slots |-> <<>>, rooms |-> <<>>, conflicts |-> <<>>]

\* domains = {region: colors.copy() for region in regions}
MapDomains(regions, colors) == [region \in Range(regions) |-> colors]

----------------------------------------------------------------------------
(* CourseSchedulingProblem.                                                *)

\* is_consistent with the conflict pairs read in one direction only.
SchedIsConsistent_OneDirection(p, variable, value, asg) ==
  LET time == value[1]
      room == value[2]
  IN  \A i \in 1..Len(asg) :
        LET assigned_course == asg[i][1]
            assigned_time == asg[i][2][1]
            assigned_room == asg[i][2][2]
        IN  \/ assigned_course = variable
            \/ /\ ~ (time = assigned_time /\ room = assigned_room)
               /\ ~ /\ time = assigned_time
                    /\ \E j \in 1..Len(p.conflicts) :
                         variable = p.conflicts[j][1] /\ assigned_course = p.conflicts[j][2]

\* CourseSchedulingProblem.is_consistent
SchedIsConsistent(p, variable, value, asg) ==
  LET time == value[1]
      room == value[2]
  IN  \A i \in 1..Len(asg) :
        LET assigned_course == asg[i][1]
            assigned_time == asg[i][2][1]
            assigned_room == asg[i][2][2]
        IN  \/ assigned_course = variable
            \/ /\ ~ (time = assigned_time /\ room = assigned_room)
               /\ ~ /\ time = assigned_time
                    /\ \E j \in 1..Len(p.conflicts) :
                         \/ variable = p.conflicts[j][1] /\ assigned_course = p.conflicts[j][2]
                         \/ variable = p.conflicts[j][2] /\ assigned_course = p.conflicts[j][1]

\* CourseSchedulingProblem.__init__: the problem object built from the arguments.
CourseSchedulingProblem(courses, time_slots, rooms, conflicts) ==
  [kind |-> "sched", variables |-> courses, neighbors |-> <<>>, colors |-> <<>>,
   time_slots |-> time_slots, rooms |-> rooms, conflicts |-> conflicts]

\* possible_slots = [(time, room) for time in time_slots for room in rooms]
PossibleSlots(time_slots, rooms) ==
  [k \in 1..(Len(time_slots) * Len(rooms)) |->
     <<time_slots[((k - 1) \div Len(rooms)) + 1], rooms[((k - 1) % Len(rooms)) + 1]>>]

\* domains = {course: possible_slots.copy() for course in courses}
SchedDomains(courses, time_slots, rooms) ==
  [course \in Range(courses) |-> PossibleSlots(time_slots, rooms)]

----------------------------------------------------------------------------
(* The capability set the solver consumes.                                 *)

\* problem.is_consistent(variable, value, assignment), by dynamic dispatch
IsConsistent(p, variable, value, asg) ==
  IF p.kind = "map" THEN MapIsConsistent(p, variable, value, asg)
  ELSE SchedIsConsistent(p, variable, value, asg)

\* The domains the constructor hands to CSPProblem.__init__
InitialDomains(p) ==
  IF p.kind = "map" THEN MapDomains(p.variables, p.colors)
  ELSE SchedDomains(p.variables, p.time_slots, p.rooms)

----------------------------------------------------------------------------
(* The problem instances a run starts from.                                *)

RegionNames == <<"A", "B", "C", "D">>
ColorNames == <<"red", "green", "blue">>
CourseNames == <<"Math", "Physics", "Chem", "Bio">>
TimeNames == <<"08:00", "10:00", "13:00">>
RoomNames == <<"101", "102", "201">>

\* The prefixes of a name pool, up to a length.
Prefixes(names, n) == {FirstN(names, k) : k \in 0..n}

\* The orderings of a list that rotating and reversing it give (every ordering
\* of a list of up to three names).
Orderings(list) ==
  IF list = <<>> THEN {<<>>}
  ELSE UNION {{Rotate(list, r), Reverse(Rotate(list, r))} : r \in 0..(Len(list) - 1)}

\* The ordered pairs of two distinct names of a list.
DistinctPairs(list) == {pr \in Range(list) \X Range(list) : pr[1] # pr[2]}

\* The sets of at most n ordered pairs of distinct names of a list.
PairSets(list, n) == {F \in SUBSET DistinctPairs(list) : Cardinality(F) <= n}

\* A neighbors dict: each region that has neighbours is a key, others are absent.
NeighborsDict(E) ==
  [r \in {pr[1] : pr \in E} |-> ListOf({pr[2] : pr \in {q \in E : q[1] = r}}, RegionNames)]

\* The conflict pairs listed in a fixed order.
ConflictList(E) ==
  SelectSeq([k \in 1..(Len(CourseNames) * Len(CourseNames)) |->
               <<CourseNames[((k - 1) \div Len(CourseNames)) + 1],
                 CourseNames[((k - 1) % Len(CourseNames)) + 1]>>],
            LAMBDA pr : pr \in E)

\* The map of the Map Coloring usage cell (five provinces, three colours).
NotebookMap ==
  MapColoringProblem(
    <<"Bangkok", "Nonthaburi", "PathumThani", "SamutPrakan", "NakhonPathom">>,
    [r \in {"Bangkok", "Nonthaburi", "PathumThani", "SamutPrakan", "NakhonPathom"} |->
       CASE r = "Bangkok" -> <<"Nonthaburi", "PathumThani", "SamutPrakan">>
         [] r = "Nonthaburi" -> <<"Bangkok", "PathumThani", "NakhonPathom">>
         [] r = "PathumThani" -> <<"Bangkok", "Nonthaburi">>
         [] r = "SamutPrakan" -> <<"Bangkok", "NakhonPathom">>
         [] r = "NakhonPathom" -> <<"Nonthaburi", "SamutPrakan">>],
    <<"red", "green", "blue">>)

\* The timetable of the Course Scheduling usage cell.
NotebookSched ==
  CourseSchedulingProblem(
    <<"Math", "Physics", "Chem", "Bio", "History">>,
    <<"08:00", "10:00", "13:00", "15:00">>,
    <<"101", "102", "201">>,
    <<(<<"Math", "Physics">>), (<<"Chem", "Bio">>)>>)

\* Section 8: regions A, B, C in a row, two colours.
PathMap ==
  MapColoringProblem(
    <<"A", "B", "C">>,
    [r \in {"A", "B", "C"} |->
       CASE r = "A" -> <<"B">> [] r = "B" -> <<"A", "C">> [] r = "C" -> <<"B">>],
    <<"red", "green">>)

\* Section 8: three mutually adjacent regions, two colours.
TriangleMap ==
  MapColoringProblem(
    <<"A", "B", "C">>,
    [r \in {"A", "B", "C"} |->
       CASE r = "A" -> <<"B", "C">> [] r = "B" -> <<"A", "C">> [] r = "C" -> <<"A", "B">>],
    <<"red", "green">>)

\* The instances written out in the notebooks and in section 8.
Scenarios == {NotebookMap, NotebookSched, PathMap, TriangleMap}

----------------------------------------------------------------------------
(* backtracking_search and the usage cells.                                *)

\* The value the search returns: a dict, or None.
Solution(asg) == [found |-> TRUE, asg |-> asg]

NoSolution == [found |-> FALSE, asg |-> <<>>]

\* Python truth value of the returned object: None and the empty dict are false.
Truthy(r) == r.found /\ Len(r.asg) > 0

\* The first variable, in declaration order, that has no value yet.
SelectUnassigned(p, asg) ==
  p.variables[CHOOSE i \in 1..Len(p.variables) :
                /\ ~ Has(asg, p.variables[i])
                /\ \A j \in 1..(i - 1) : Has(asg, p.variables[j])]

Top == stack[Len(stack)]

\* The state after the constructor has run: a problem object built from the
\* caller's lists, its domains, and no search started.
Init ==
  /\ \/ \E names \in Prefixes(RegionNames, MaxRegions) :
          \E regions \in Orderings(names), E \in PairSets(names, MaxEdges),
             colors \in Prefixes(ColorNames, MaxColors) :
            problem = MapColoringProblem(regions, NeighborsDict(E), colors)
     \/ \E names \in Prefixes(CourseNames, MaxCourses) :
          \E courses \in Orderings(names), E \in PairSets(names, MaxConflicts),
             time_slots \in Prefixes(TimeNames, MaxTimes),
             rooms \in Prefixes(RoomNames, MaxRooms) :
            problem = CourseSchedulingProblem(courses, time_slots, rooms, ConflictList(E))
     \/ problem \in Scenarios
  /\ domains = InitialDomains(problem)
  /\ assignment = <<>>
  /\ stack = <<>>
  /\ pc = "ready"
  /\ results = <<>>
  /\ branch = "none"

\* solution = backtracking_search(problem, verbose=False): the search starts
\* from an empty assignment.
Call ==
  /\ pc \in {"ready", "returned"}
  /\ Len(results) < MaxCalls
  /\ assignment' = <<>>
  /\ stack' = <<>>
  /\ pc' = "enter"
  /\ UNCHANGED <<problem, domains, results, branch>>

\* Step 1: the assignment covers all variables; it is returned and every
\* enclosing call returns it at once.
Succeed ==
  /\ pc = "enter"
  /\ Len(assignment) = Len(problem.variables)
  /\ results' = Append(results, Solution(assignment))
  /\ stack' = <<>>
  /\ pc' = "returned"
  /\ UNCHANGED <<problem, domains, assignment, branch>>

\* Step 2: select an unassigned variable and take its candidate values.
Select ==
  /\ pc = "enter"
  /\ Len(assignment) < Len(problem.variables)
  /\ LET var == SelectUnassigned(problem, assignment)
     IN  stack' = Append(stack, [var |-> var, rest |-> domains[var], saved |-> assignment])
  /\ pc' = "loop"
  /\ UNCHANGED <<problem, domains, assignment, results, branch>>

\* Assign taking the chosen value out of the problem's own domain list.
Assign_InPlace ==
  /\ pc = "loop"
  /\ Top.rest # <<>>
  /\ IsConsistent(problem, Top.var, Head(Top.rest), assignment)
  /\ assignment' = Put(assignment, Top.var, Head(Top.rest))
  /\ stack' = [stack EXCEPT ![Len(stack)].rest = Tail(@)]
  /\ domains' = [domains EXCEPT ![Top.var] = SelectSeq(@, LAMBDA x : x # Head(Top.rest))]
  /\ pc' = "enter"
  /\ UNCHANGED <<problem, results, branch>>

\* Step 3a/3b: the next candidate is consistent; add it and recurse.
Assign ==
  /\ pc = "loop"
  /\ Top.rest # <<>>
  /\ IsConsistent(problem, Top.var, Head(Top.rest), assignment)
  /\ assignment' = Put(assignment, Top.var, Head(Top.rest))
  /\ stack' = [stack EXCEPT ![Len(stack)].rest = Tail(@)]
  /\ pc' = "enter"
  /\ UNCHANGED <<problem, domains, results, branch>>

\* Reject pruning the rejected value from the problem's own domain list.
Reject_InPlace ==
  /\ pc = "loop"
  /\ Top.rest # <<>>
  /\ ~ IsConsistent(problem, Top.var, Head(Top.rest), assignment)
  /\ stack' = [stack EXCEPT ![Len(stack)].rest = Tail(@)]
  /\ domains' = [domains EXCEPT ![Top.var] = SelectSeq(@, LAMBDA x : x # Head(Top.rest))]
  /\ UNCHANGED <<problem, assignment, pc, results, branch>>

\* Step 3: the next candidate is not consistent; go on to the one after it.
Reject ==
  /\ pc = "loop"
  /\ Top.rest # <<>>
  /\ ~ IsConsistent(problem, Top.var, Head(Top.rest), assignment)
  /\ stack' = [stack EXCEPT ![Len(stack)].rest = Tail(@)]
  /\ UNCHANGED <<problem, domains, assignment, pc, results, branch>>

\* Backtrack starting the exhausted variable's candidates over instead of
\* returning failure to the caller.
Backtrack_Retry ==
  /\ pc = "loop"
  /\ Top.rest = <<>>
  /\ Len(stack) > 1
  /\ stack' = [stack EXCEPT ![Len(stack)].rest = domains[Top.var]]
  /\ UNCHANGED <<problem, domains, assignment, pc, results, branch>>

\* Backtrack leaving the caller's tentative pair in the assignment.
Backtrack_NoUndo ==
  /\ pc = "loop"
  /\ Top.rest = <<>>
  /\ Len(stack) > 1
  /\ stack' = SubSeq(stack, 1, Len(stack) - 1)
  /\ UNCHANGED <<problem, domains, assignment, pc, results, branch>>

\* Steps 4 and 3c: no candidate of the variable is left; the call returns
\* failure and its caller undoes its own tentative assignment.
Backtrack ==
  /\ pc = "loop"
  /\ Top.rest = <<>>
  /\ Len(stack) > 1
  /\ assignment' = Del(assignment, stack[Len(stack) - 1].var)
  /\ stack' = SubSeq(stack, 1, Len(stack) - 1)
  /\ UNCHANGED <<problem, domains, pc, results, branch>>

\* Step 5: the initial call has no candidate left; the search returns None.
Fail ==
  /\ pc = "loop"
  /\ Top.rest = <<>>
  /\ Len(stack) = 1
  /\ results' = Append(results, NoSolution)
  /\ stack' = <<>>
  /\ pc' = "returned"
  /\ UNCHANGED <<problem, domains, assignment, branch>>

\* if solution: ... else: ...
Report ==
  /\ pc = "returned"
  /\ branch' = IF Truthy(results[Len(results)]) THEN "success" ELSE "failure"
  /\ pc' = "reported"
  /\ UNCHANGED <<problem, domains, assignment, stack, results>>

Next ==
  \/ Call
  \/ Succeed
  \/ Select
  \/ Assign
  \/ Reject
  \/ Backtrack
  \/ Fail
  \/ Report

Spec == Init /\ [][Next]_vars

\* The initial states whose variables are declared in the order of the name
\* pool.  The pairs of the neighbors dict and of the conflict list still range
\* over every direction, so every other declaration order is one of these
\* with the names exchanged.
FairInit ==
  /\ Init
  /\ \/ problem \in Scenarios
     \/ problem.variables \in Prefixes(RegionNames, MaxRegions) \cup Prefixes(CourseNames, MaxCourses)

\* The search is one sequential computation: it keeps taking steps.
FairSpec == FairInit /\ [][Next]_vars /\ WF_vars(Next)

----------------------------------------------------------------------------
(* What the claims speak of.                                               *)

\* The object the latest call returned.
Last == results[Len(results)]

\* The assignment gives a value to every variable of the problem.
Complete(p, asg) ==
  /\ Len(asg) = Len(p.variables)
  /\ \A i \in 1..Len(p.variables) : Has(asg, p.variables[i])

\* Every assigned value passes is_consistent against the whole assignment.
SatisfiesAll(p, asg) ==
  \A i \in 1..Len(asg) : IsConsistent(p, asg[i][1], asg[i][2], asg)

\* Every complete assignment that takes each variable's value from its domain,
\* the variables in declaration order.
Candidates(p) ==
  LET n == Len(p.variables)
      D == InitialDomains(p)
      V == UNION {Range(D[v]) : v \in DOMAIN D}
  IN  {[i \in 1..n |-> <<p.variables[i], f[i]>>] :
         f \in {g \in [1..n -> V] : \A i \in 1..n : g[i] \in Range(D[p.variables[i]])}}

\* a comes before b: at the first variable where they differ, a takes the
\* value that is earlier in the variable's domain list.
LexLess(p, a, b) ==
  \E i \in 1..Len(p.variables) :
    /\ \A j \in 1..(i - 1) : a[j][2] = b[j][2]
    /\ a[i][2] # b[i][2]
    /\ IndexOf(InitialDomains(p)[p.variables[i]], a[i][2])
         < IndexOf(InitialDomains(p)[p.variables[i]], b[i][2])

\* C1: a returned solution assigns every variable, and every variable's value
\* passes is_consistent against the complete returned assignment.
C1_ReturnedSolutionSatisfies ==
  \A k \in 1..Len(results) :
    results[k].found => Complete(problem, results[k].asg) /\ SatisfiesAll(problem, results[k].asg)

\* C2: when no complete assignment satisfies the constraints, the search
\* returns the no-solution value.
C2_NoSolutionWhenUnsatisfiable ==
  (pc = "returned" /\ ~ \E c \in Candidates(problem) : SatisfiesAll(problem, c))
    => Last = NoSolution

\* C3: when a satisfying complete assignment exists, the search returns the
\* lexicographically first one; the notebooks' instances give the recorded output.
C3_FirstInLexicographicOrder ==
  /\ (pc = "returned" /\ \E c \in Candidates(problem) : SatisfiesAll(problem, c))
       => /\ Last.found
          /\ Complete(problem, Last.asg)
          /\ SatisfiesAll(problem, Last.asg)
          /\ ~ \E c \in Candidates(problem) :
                 LexLess(problem, c, Last.asg) /\ SatisfiesAll(problem, c)
  /\ (pc = "returned" /\ problem = NotebookMap)
       => Last = Solution(<<(<<"Bangkok", "red">>), (<<"Nonthaburi", "green">>),
                            (<<"PathumThani", "blue">>), (<<"SamutPrakan", "green">>),
                            (<<"NakhonPathom", "red">>)>>)
  /\ (pc = "returned" /\ problem = NotebookSched)
       => Last = Solution(<<(<<"Math", (<<"08:00", "101">>)>>),
                            (<<"Physics", (<<"10:00", "101">>)>>),
                            (<<"Chem", (<<"08:00", "102">>)>>),
                            (<<"Bio", (<<"10:00", "102">>)>>),
                            (<<"History", (<<"08:00", "201">>)>>)>>)

\* C4: in a returned schedule the two courses of every conflict pair have
\* different time slots, whatever the order of the course list and of the pair.
C4_ConflictPairsDifferInTime ==
  problem.kind = "sched" =>
    \A k \in 1..Len(results) :
      results[k].found =>
        \A j \in 1..Len(problem.conflicts) :
          LET course1 == problem.conflicts[j][1]
              course2 == problem.conflicts[j][2]
          IN  (Has(results[k].asg, course1) /\ Has(results[k].asg, course2))
                => Lookup(results[k].asg, course1)[1] # Lookup(results[k].asg, course2)[1]

\* A schedule was returned in which a conflict pair, whose second course is
\* listed before its first, shares a room at different times.
C4_Witness ==
  /\ problem.kind = "sched"
  /\ pc = "returned"
  /\ Last.found
  /\ \E j \in 1..Len(problem.conflicts) :
       LET course1 == problem.conflicts[j][1]
           course2 == problem.conflicts[j][2]
       IN  /\ Has(Last.asg, course1) /\ Has(Last.asg, course2)
           /\ IndexOf(problem.variables, course2) < IndexOf(problem.variables, course1)
           /\ Lookup(Last.asg, course1)[2] = Lookup(Last.asg, course2)[2]
           /\ Lookup(Last.asg, course1)[1] # Lookup(Last.asg, course2)[1]

\* C5: in a returned colouring every region differs in colour from every
\* region listed in its neighbors entry; regions A, B, C in a row with two
\* colours give A=red, B=green, C=red.
C5_NeighborsDifferInColour ==
  /\ problem.kind = "map" =>
       \A k \in 1..Len(results) :
         results[k].found =>
           \A r \in DOMAIN problem.neighbors : \A i \in 1..Len(problem.neighbors[r]) :
             LET n == problem.neighbors[r][i]
             IN  (Has(results[k].asg, r) /\ Has(results[k].asg, n))
                   => Lookup(results[k].asg, r) # Lookup(results[k].asg, n)
  /\ (pc = "returned" /\ problem = PathMap)
       => Last = Solution(<<(<<"A", "red">>), (<<"B", "green">>), (<<"C", "red">>)>>)

\* C6: the usage cell takes its success branch exactly when the search found
\* a solution, and its failure branch exactly when it reported no-solution.
C6_BranchTellsOutcome ==
  pc = "reported" =>
    /\ (branch = "success") <=> Last.found
    /\ (branch = "failure") <=> (Last = NoSolution)

C9_SearchTerminates ==
  /\ [](pc = "returned" =>
          \/ Last.found /\ Complete(problem, Last.asg)
          \/ Last = NoSolution)
  /\ (pc = "enter") ~> (pc = "returned")

\* A search of at least three variables has returned a complete assignment
\* after rejecting some candidate value.
C9_Witness ==
  /\ pc = "returned"
  /\ Len(results) = 1
  /\ Last.found
  /\ Len(Last.asg) >= 3
  /\ Complete(problem, Last.asg)
  /\ \E i \in 1..Len(Last.asg) : Last.asg[i][2] # domains[Last.asg[i][1]][1]

\* C10: every pair in the assignment passed is_consistent against the pairs
\* added before it; whenever the next candidate of a variable is about to be
\* tried the assignment is what it was before that variable got a value; and
\* a search that fails leaves the assignment empty.
C10_AssignmentDiscipline ==
  /\ \A i \in 1..Len(assignment) :
       IsConsistent(problem, assignment[i][1], assignment[i][2], SubSeq(assignment, 1, i - 1))
  /\ pc = "loop" => assignment = Top.saved
  /\ (pc = "returned" /\ Last = NoSolution) => assignment = <<>>

\* A search over at least two variables with candidate values has failed,
\* so pairs were added and taken back, and the assignment is empty.
C10_Witness ==
  /\ pc = "returned"
  /\ Last = NoSolution
  /\ Len(problem.variables) >= 2
  /\ \A v \in DOMAIN domains : Len(domains[v]) >= 1
  /\ assignment = <<>>

====
